---- MODULE Spec2Model ----
(***************************************************************************)
(* A model of telegram_dl's export run (src/telegram_dl.py): the           *)
(* `export` command's loop over the selected chats, export_chat's          *)
(* retry-on-FloodWaitError loop around client.iter_messages, the           *)
(* per-message budget check, the two RateLimiter gates, get_user_info      *)
(* with its user_cache, and the JSON / Markdown writers.  The run starts   *)
(* with the choice of the chats: interactively, or all of them.            *)
(*                                                                         *)
(* The Telegram client is the environment: every request to it             *)
(* (the iterator's next item, get_entity) is answered nondeterministically *)
(* with a result, a FloodWaitError(seconds) or another exception.          *)
(* Time is counted in whole seconds and advances only while the program    *)
(* sleeps.  Message date and text are copied verbatim by the code and are  *)
(* left out of the message records.                                        *)
(***************************************************************************)
EXTENDS Integers, Sequences, FiniteSets, TLC

(* ------------------------------ bounds -------------------------------- *)
\* number of chats returned by get_all_chats
NumChats == 2
\* longest remote message stream of one chat
MaxStream == 2
\* largest --limit value tried
MaxLimit == 2
\* user ids are 1..NumUsers
NumUsers == 2
\* FloodWaitErrors the remote raises during one run
MaxThrottle == 2
\* largest FloodWaitError.seconds
MaxFloodSeconds == 2
\* time.time() when the run starts
StartTime == 10
\* longest name sanitize_filename is tried on, besides the longer example
MaxName == 3
\* day of October 2026 on which the run starts
StartDay == 30
\* midnights that pass during one run
MaxDayChanges == 1

(* --------------------------- program constants ------------------------ *)
\* RateLimiter(1.0): 1 / messages_per_second, in seconds
MessageInterval == 1
\* RateLimiter(0.5): 1 / messages_per_second, in seconds
UserInterval == 2

(* ------------------------------ values -------------------------------- *)
\* Python's None
None == [some |-> FALSE]
\* a Python str, as a sequence of one-character strings
Str(chars) == [some |-> TRUE, val |-> chars]

Users == 1..NumUsers
FloodSeconds == 1..MaxFloodSeconds
Formats == {"json", "md"}
Chats == 1..NumChats
\* the days datetime.now() can fall on, counted from 2026-10-01 as day 1
Days == StartDay..(StartDay + MaxDayChanges)

\* message.id of the item at position pos of a stream of n items (newest first)
MessageId(n, pos) == 10 * (n - pos + 1)

\* the remote streams of one chat: ids newest-first, from_id 0 when the
\* message has no sender (message.from_id is None)
StreamsOfLen(n) == { [pos \in 1..n |-> [id |-> MessageId(n, pos), from_id |-> f[pos]]] :
                     f \in [1..n -> 0..NumUsers] }
Streams == UNION { StreamsOfLen(n) : n \in 0..MaxStream }

\* chat.name of the chats returned by get_all_chats
ChatName(c) ==
  IF c = 1 THEN <<"a", "/", "b">>
  ELSE IF c = 2 THEN <<"a", "?", "b">>
  ELSE <<" ", "c", "-", "1", " ">>

\* the user entity client.get_entity returns for a user id
RemoteUser(uid) ==
  IF uid = 1 THEN [id |-> uid, username |-> Str(<<"a", "l">>),
                   first_name |-> Str(<<"A">>), last_name |-> Str(<<"L">>)]
  ELSE [id |-> uid, username |-> None, first_name |-> None, last_name |-> None]

VARIABLES
  limit,              \* --limit
  include_usernames,  \* --usernames / --no-usernames
  format,             \* --format
  interactive,        \* --interactive / --no-interactive
  selected,           \* _export's selected_indices, as chat numbers from 1
  today,              \* the day datetime.now() last fell on
  pc,                 \* position of the run
  chatIdx,            \* number of the chat whose export_chat is (or was last)
                      \* running: the loop's idx + 1, 0 before the loop
  stream,             \* remote messages of that chat, in iterator order
  cursor,             \* items the current iter_messages iterator has delivered
  messages,           \* export_chat's messages list
  message_count,      \* export_chat's message_count
  user_cache,         \* export_chat's user_cache dict
  msg_last,           \* message_rate_limiter.last_message_time
  user_last,          \* user_rate_limiter.last_message_time
  now,                \* time.time()
  files,              \* the exports directory: filename -> document
  floods,             \* FloodWaitErrors raised so far in the run
  restarts,           \* FloodWaitErrors raised by the stream in this export_chat
  calls,              \* client.get_entity calls per user id in the run
  answered,           \* those of them that returned or failed terminally
  completed,          \* get_entity calls per user id that returned or failed
                      \* terminally in this export_chat
  last_reply,         \* what the Telegram client answered to the last request
  wait_time,          \* handle_rate_limit_error's wait_time: error.seconds of
                      \* the last FloodWaitError
  gated,              \* when a wait() of each RateLimiter class last returned
                      \* in the run
  name_in,            \* sanitize_filename's argument when it is called alone
  name_out            \* and its result

vars == <<limit, include_usernames, format, interactive, selected, today, pc, chatIdx, stream, cursor,
          messages, message_count, user_cache, msg_last, user_last, now,
          files, floods, restarts, calls, answered, completed, last_reply,
          wait_time, gated, name_in, name_out>>

inputs == <<limit, include_usernames, format, interactive>>

pure == <<name_in, name_out>>

run == <<inputs, selected, today, pc, chatIdx, stream, cursor, messages, message_count,
         user_cache, msg_last, user_last, now, files, floods, restarts,
         calls, answered, completed, last_reply, wait_time, gated>>

(* ----------------------------- RateLimiter ---------------------------- *)
\* RateLimiter.__init__: last_message_time = 0
NewRateLimiter == 0

\* faulty variant: the deficit is taken one second short
WaitSleepShort(last, interval, t) ==
  IF t - last < interval - 1 THEN interval - 1 - (t - last) ELSE 0

\* RateLimiter.wait: the time asyncio.sleep is called with (0 when no sleep)
WaitSleep(last, interval, t) ==
  IF t - last < interval THEN interval - (t - last) ELSE 0

\* RateLimiter.wait: time.time() when wait returns; it becomes last_message_time
WaitDone(last, interval, t) == t + WaitSleep(last, interval, t)

\* lines 155-159: time.time() after asyncio.sleep(error.seconds)
handle_rate_limit_error(t, seconds) == t + seconds

(* ------------------------------ helpers ------------------------------- *)
\* faulty variant of the budget check: one item too many is let through
BudgetReachedOffByOne(count, lim) == count > lim

\* line 201: if message_count >= limit: break
BudgetReached(count, lim) == count >= lim

\* line 182: user_cache = {}
NewUserCache == << >>

\* faulty variant of the cache check: the cache is never consulted
CacheMissAlways(cache, uid) == TRUE

\* line 216: if user_id not in user_cache
CacheMiss(cache, uid) == uid \notin DOMAIN cache

\* line 217: user_cache[user_id] = <result of get_user_info>
CacheStore(cache, uid, info) ==
  [u \in (DOMAIN cache) \cup {uid} |-> IF u = uid THEN info ELSE cache[u]]

\* faulty variant: the new message is put in front
PrependMessage(msgs, msg) == <<msg>> \o msgs

\* line 222: messages.append(msg_data)
AppendMessage(msgs, msg) == Append(msgs, msg)

\* lines 167-172: the dict get_user_info builds from the user entity
UserDict(user) ==
  [id |-> user.id, username |-> user.username,
   first_name |-> user.first_name, last_name |-> user.last_name]

\* faulty variant: only FloodWaitError is caught, other exceptions get out
get_user_info_raising(resp) ==
  CASE resp.kind = "ok"    -> [do |-> "return", val |-> UserDict(resp.user)]
    [] resp.kind = "flood" -> [do |-> "retry", val |-> None]
    [] resp.kind = "error" -> [do |-> "raise", val |-> None]

\* faulty variant: a FloodWaitError ends the lookup with None
get_user_info_giving_up(resp) ==
  CASE resp.kind = "ok"    -> [do |-> "return", val |-> UserDict(resp.user)]
    [] resp.kind = "flood" -> [do |-> "return", val |-> None]
    [] resp.kind = "error" -> [do |-> "return", val |-> None]

\* faulty variant: the FloodWaitError of get_entity is not caught
get_user_info_flood_escapes(resp) ==
  CASE resp.kind = "ok"    -> [do |-> "return", val |-> UserDict(resp.user)]
    [] resp.kind = "flood" -> [do |-> "raise", val |-> None]
    [] resp.kind = "error" -> [do |-> "return", val |-> None]

\* lines 163-176: what one pass of get_user_info's loop does with the
\* remote's answer: return a value, sleep and retry, or let an exception out
get_user_info(resp) ==
  CASE resp.kind = "ok"    -> [do |-> "return", val |-> UserDict(resp.user)]
    [] resp.kind = "flood" -> [do |-> "retry", val |-> None]
    [] resp.kind = "error" -> [do |-> "return", val |-> None]

\* lines 206-220: msg_data for an item; info is the cached user info
MsgData(item, resolve, info) ==
  IF item.from_id # 0 /\ resolve
    THEN [id |-> item.id, from_user |-> info]
  ELSE IF item.from_id # 0
    THEN [id |-> item.id, from_id |-> item.from_id]
  ELSE [id |-> item.id]

Ids(msgs) == [i \in 1..Len(msgs) |-> msgs[i].id]

Min(a, b) == IF a < b THEN a ELSE b

(* ------------------------------ writers ------------------------------- *)
\* str.isalnum() on the characters that occur in the modelled names
Alnum == {"a", "b", "c", "l", "A", "L", "1", "2",
          "T", "e", "m", "C", "h", "t", "0", "4"}

\* str.strip(): leading and trailing whitespace removed
RECURSIVE LStrip(_)
LStrip(s) == IF s # << >> /\ Head(s) = " " THEN LStrip(Tail(s)) ELSE s

RECURSIVE RStrip(_)
RStrip(s) ==
  IF s # << >> /\ s[Len(s)] = " " THEN RStrip(SubSeq(s, 1, Len(s) - 1)) ELSE s

Strip(s) == RStrip(LStrip(s))

\* faulty variant: the result is not stripped
sanitize_filename_unstripped(name) ==
  [i \in 1..Len(name) |->
     IF name[i] \in Alnum \/ name[i] \in {" ", "-", "_"} THEN name[i] ELSE "_"]

\* lines 41-43
sanitize_filename(name) ==
  Strip([i \in 1..Len(name) |->
           IF name[i] \in Alnum \/ name[i] \in {" ", "-", "_"} THEN name[i] ELSE "_"])

\* one decimal digit as a character
Digit(k) == <<"0", "1", "2", "3", "4", "5", "6", "7", "8", "9">>[k + 1]

\* %m and %d: a number below 100 in two digits
TwoDigits(n) == <<Digit(n \div 10), Digit(n % 10)>>

\* line 239: datetime.now().strftime("%Y%m%d") on day d, where day 1 is
\* 2026-10-01 and October has 31 days
DatePrefix(d) ==
  IF d <= 31
    THEN <<"2", "0", "2", "6">> \o TwoDigits(10) \o TwoDigits(d)
    ELSE <<"2", "0", "2", "6">> \o TwoDigits(11) \o TwoDigits(d - 31)

\* lines 239-241: exports/{date_prefix}_{safe_chat_name}.{format} for chat c
\* written on day d
FileName(c, fmt, d) ==
  [date |-> DatePrefix(d), name |-> sanitize_filename(ChatName(c)), ext |-> fmt]

\* an f-string field: str(x), which is "None" for None
PyFormat(x) == IF x = None THEN <<"None">> ELSE x.val

\* x or default, for an optional str
OrDefault(x, default) == IF x = None \/ x.val = << >> THEN default ELSE x.val

\* lines 262-268: the sender part of a Markdown header
MdSender(msg) ==
  IF "from_user" \in DOMAIN msg /\ msg.from_user # None
    THEN LET user == msg.from_user
             username == OrDefault(user.username, <<"No username">>)
             full == Strip(PyFormat(user.first_name) \o <<" ">> \o PyFormat(user.last_name))
             name == IF full = << >> THEN <<"No name">> ELSE full
         IN [kind |-> "user", username |-> username, name |-> name]
  ELSE IF "from_id" \in DOMAIN msg
    THEN [kind |-> "id", user_id |-> msg.from_id]
  ELSE [kind |-> "none"]

\* faulty variant: the messages are written in fetch order
NotReversed(s) == s

\* line 256: reversed(messages)
Reversed(s) == [i \in 1..Len(s) |-> s[Len(s) + 1 - i]]

\* lines 253-276: one section per message, oldest first
MdSections(msgs) ==
  LET r == Reversed(msgs)
  IN [i \in 1..Len(r) |-> [id |-> r[i].id, sender |-> MdSender(r[i])]]

\* lines 243-276: the document written for a chat
Document(c, fmt, msgs) ==
  IF fmt = "json"
    THEN [chat_name |-> ChatName(c), chat_id |-> c, messages |-> msgs]
    ELSE [title |-> ChatName(c), sections |-> MdSections(msgs)]

\* open(filename, "w"): the file is created or replaced
WriteFileTo(dir, fn, doc) ==
  [f \in (DOMAIN dir) \cup {fn} |-> IF f = fn THEN doc ELSE dir[f]]

(* ------------------------------- Init --------------------------------- *)
\* the locals of a run that has not exported anything yet
InitLocals ==
  /\ limit \in 0..MaxLimit
  /\ include_usernames \in BOOLEAN
  /\ format \in Formats
  /\ today = StartDay
  /\ chatIdx = 0
  /\ stream = << >>
  /\ cursor = 0
  /\ messages = << >>
  /\ message_count = 0
  /\ user_cache = << >>
  /\ msg_last = 0
  /\ user_last = 0
  /\ now = StartTime
  /\ files = << >>
  /\ floods = 0
  /\ restarts = 0
  /\ calls = [u \in Users |-> 0]
  /\ answered = [u \in Users |-> 0]
  /\ completed = [u \in Users |-> 0]
  /\ last_reply = "none"
  /\ wait_time = 0
  /\ gated = [msg |-> 0, user |-> 0]

\* lines 337-347: the command is entered, no chat is selected yet
InitRun ==
  /\ InitLocals
  /\ interactive \in BOOLEAN
  /\ selected = << >>
  /\ pc = "start"

Init ==
  /\ InitRun
  /\ name_in = << >>
  /\ name_out = None

(* ------------------------------ _export ------------------------------- *)
\* sorted(): the members of a set of chat numbers in ascending order
RECURSIVE Sorted(_)
Sorted(S) ==
  IF S = {} THEN << >>
  ELSE LET m == CHOOSE x \in S : \A y \in S : x <= y
       IN <<m>> \o Sorted(S \ {m})

\* lines 83-135: the user toggles chats and ends with 'd'; toggled is the set
\* of chats left selected, and the list returned is sorted
interactive_select_chats(toggled) == Sorted(toggled)

\* lines 349-354: interactive selection; with nothing selected _export
\* disconnects and returns
SelectInteractive ==
  /\ pc = "start"
  /\ interactive
  /\ \E toggled \in SUBSET Chats :
        /\ selected' = interactive_select_chats(toggled)
        /\ pc' = IF selected' = << >> THEN "none_selected" ELSE "select"
  /\ UNCHANGED <<inputs, today, chatIdx, stream, cursor, messages,
                 message_count, user_cache, msg_last, user_last, now, files,
                 floods, restarts, calls, answered, completed, last_reply,
                 wait_time, gated, pure>>

\* lines 356-358: --no-interactive; `list` is the command defined at line 281,
\* not the builtin, so list(range(len(chats))) calls asyncio.run inside the
\* running event loop, which raises RuntimeError out of _export
SelectAll ==
  /\ pc = "start"
  /\ ~interactive
  /\ pc' = "crashed"
  /\ UNCHANGED <<inputs, selected, today, chatIdx, stream, cursor, messages,
                 message_count, user_cache, msg_last, user_last, now, files,
                 floods, restarts, calls, answered, completed, last_reply,
                 wait_time, gated, pure>>

\* the selected chats the loop of line 369 has not reached yet
Remaining == { i \in 1..Len(selected) : selected[i] > chatIdx }

\* lines 369-372 and 180-186: the loop takes the next selected chat and
\* export_chat starts with fresh locals; the remote fixes the chat's stream
StartExport ==
  /\ pc = "select"
  /\ Remaining # {}
  /\ chatIdx' = selected[CHOOSE i \in Remaining : \A j \in Remaining : i <= j]
  /\ stream' \in Streams
  /\ cursor' = 0
  /\ messages' = << >>
  /\ message_count' = 0
  /\ user_cache' = NewUserCache
  /\ msg_last' = NewRateLimiter
  /\ user_last' = NewRateLimiter
  /\ restarts' = 0
  /\ completed' = [u \in Users |-> 0]
  /\ pc' = "iter"
  /\ UNCHANGED <<inputs, selected, today, now, files, floods, calls, answered, last_reply,
                 wait_time, gated, pure>>

\* lines 374-375: every selected chat is exported
Finish ==
  /\ pc = "select"
  /\ Remaining = {}
  /\ pc' = "completed"
  /\ UNCHANGED <<inputs, selected, today, chatIdx, stream, cursor, messages, message_count,
                 user_cache, msg_last, user_last, now, files, floods,
                 restarts, calls, answered, completed, last_reply,
                 wait_time, gated, pure>>

(* ----------------------------- export_chat ---------------------------- *)
\* lines 200-224: the iterator delivers its next item
IterDeliver ==
  /\ pc = "iter"
  /\ cursor < Len(stream)
  /\ cursor' = cursor + 1
  /\ last_reply' = "item"
  /\ LET item == stream[cursor + 1]
         t == WaitDone(msg_last, MessageInterval, now)
         resolve == item.from_id # 0 /\ include_usernames
     IN IF BudgetReached(message_count, limit)
          THEN /\ pc' = "write"
               /\ UNCHANGED <<messages, message_count, msg_last, now, gated>>
        ELSE IF resolve /\ CacheMiss(user_cache, item.from_id)
          THEN /\ pc' = "resolve"
               /\ msg_last' = t
               /\ now' = t
               /\ gated' = [gated EXCEPT !.msg = t]
               /\ UNCHANGED <<messages, message_count>>
        ELSE /\ pc' = "iter"
             /\ msg_last' = t
             /\ now' = t
             /\ gated' = [gated EXCEPT !.msg = t]
             /\ messages' = AppendMessage(messages,
                              MsgData(item, include_usernames,
                                      IF resolve THEN user_cache[item.from_id] ELSE None))
             /\ message_count' = message_count + 1
  /\ UNCHANGED <<inputs, selected, today, chatIdx, stream, user_cache, user_last, files,
                 floods, restarts, calls, answered, completed, wait_time, pure>>

\* lines 200 and 226: the iterator is exhausted, the retry loop is left
IterEnd ==
  /\ pc = "iter"
  /\ cursor = Len(stream)
  /\ pc' = "write"
  /\ last_reply' = "end"
  /\ UNCHANGED <<inputs, selected, today, chatIdx, stream, cursor, messages, message_count,
                 user_cache, msg_last, user_last, now, files, floods,
                 restarts, calls, answered, completed, wait_time, gated, pure>>

\* lines 228-232 and 155-159: the iterator raises FloodWaitError; the code
\* sleeps error.seconds and `continue`s, which calls iter_messages again
IterFlood ==
  /\ pc = "iter"
  /\ floods < MaxThrottle
  /\ \E s \in FloodSeconds :
        /\ wait_time' = s
        /\ now' = handle_rate_limit_error(now, s)
  /\ cursor' = 0
  /\ floods' = floods + 1
  /\ restarts' = restarts + 1
  /\ last_reply' = "flood"
  /\ UNCHANGED <<inputs, selected, today, pc, chatIdx, stream, messages, message_count,
                 user_cache, msg_last, user_last, files, calls, answered,
                 completed, gated, pure>>

\* the iterator raises another exception: nothing in export_chat or _export
\* catches it, asyncio.run re-raises it and the run ends
IterFail ==
  /\ pc = "iter"
  /\ pc' = "crashed"
  /\ last_reply' = "error"
  /\ UNCHANGED <<inputs, selected, today, chatIdx, stream, cursor, messages, message_count,
                 user_cache, msg_last, user_last, now, files, floods,
                 restarts, calls, answered, completed, wait_time, gated, pure>>

\* lines 163-176 and 216-224: one pass of get_user_info's loop for the sender
\* of the item in hand, answered by the remote with resp
Resolve(resp) ==
  /\ pc = "resolve"
  /\ LET item == stream[cursor]
         uid == item.from_id
         t == WaitDone(user_last, UserInterval, now)
         r == get_user_info(resp)
     IN /\ user_last' = t
        /\ gated' = [gated EXCEPT !.user = t]
        /\ last_reply' = resp.kind
        /\ calls' = [calls EXCEPT ![uid] = @ + 1]
        /\ IF r.do = "return"
             THEN /\ user_cache' = CacheStore(user_cache, uid, r.val)
                  /\ messages' = AppendMessage(messages,
                                   MsgData(item, include_usernames, user_cache'[uid]))
                  /\ message_count' = message_count + 1
                  /\ completed' = [completed EXCEPT ![uid] = @ + 1]
                  /\ answered' = [answered EXCEPT ![uid] = @ + 1]
                  /\ now' = t
                  /\ pc' = "iter"
                  /\ UNCHANGED <<floods, wait_time>>
           ELSE IF r.do = "retry"
             THEN /\ wait_time' = resp.seconds
                  /\ now' = handle_rate_limit_error(t, resp.seconds)
                  /\ floods' = floods + 1
                  /\ UNCHANGED <<pc, user_cache, messages, message_count,
                                 completed, answered>>
           ELSE /\ pc' = "crashed"
                /\ now' = t
                /\ UNCHANGED <<user_cache, messages, message_count,
                               completed, answered, floods, wait_time>>
  /\ UNCHANGED <<inputs, selected, today, chatIdx, stream, cursor, msg_last, files, restarts, pure>>

\* client.get_entity returns the user
ResolveOk ==
  /\ pc = "resolve"
  /\ Resolve([kind |-> "ok", user |-> RemoteUser(stream[cursor].from_id)])

\* client.get_entity raises FloodWaitError
ResolveFlood ==
  /\ pc = "resolve"
  /\ floods < MaxThrottle
  /\ \E s \in FloodSeconds : Resolve([kind |-> "flood", seconds |-> s])

\* client.get_entity raises another exception
ResolveError ==
  /\ pc = "resolve"
  /\ Resolve([kind |-> "error"])

\* lines 234-278: the record is written and export_chat returns
WriteFile ==
  /\ pc = "write"
  /\ \E d \in Days :
        /\ d \in {today, today + 1}
        /\ today' = d
        /\ files' = WriteFileTo(files, FileName(chatIdx, format, d),
                                Document(chatIdx, format, messages))
  /\ pc' = "select"
  /\ UNCHANGED <<inputs, selected, chatIdx, stream, cursor, messages, message_count,
                 user_cache, msg_last, user_last, now, floods, restarts,
                 calls, answered, completed, last_reply,
                 wait_time, gated, pure>>

Next ==
  \/ SelectInteractive
  \/ SelectAll
  \/ StartExport
  \/ Finish
  \/ IterDeliver
  \/ IterEnd
  \/ IterFlood
  \/ IterFail
  \/ ResolveOk
  \/ ResolveFlood
  \/ ResolveError
  \/ WriteFile

Spec == Init /\ [][Next]_vars

(* --------------------- one export_chat call on its own ---------------- *)
\* line 372: every chat was selected and the loop is about to call
\* export_chat for the first time
InitChat ==
  /\ InitLocals
  /\ interactive = TRUE
  /\ selected = interactive_select_chats(Chats)
  /\ pc = "select"
  /\ name_in = << >>
  /\ name_out = None

\* lines 178-186: export_chat is called for the first selected chat
FirstExport ==
  /\ chatIdx = 0
  /\ StartExport

\* the steps of one export_chat call, from its first line to its return
NextChat ==
  \/ FirstExport
  \/ IterDeliver
  \/ IterEnd
  \/ IterFlood
  \/ IterFail
  \/ ResolveOk
  \/ ResolveFlood
  \/ ResolveError
  \/ WriteFile

SpecChat == InitChat /\ [][NextChat]_vars

(* ------------- one export_chat call whose stream does not fail -------- *)
\* the steps of one export_chat call when iter_messages raises nothing but
\* FloodWaitError, and that at most MaxThrottle times together with get_entity
NextChatLive ==
  \/ FirstExport
  \/ IterDeliver
  \/ IterEnd
  \/ IterFlood
  \/ ResolveOk
  \/ ResolveFlood
  \/ ResolveError
  \/ WriteFile

\* the event loop keeps running the coroutine: every sleep ends and every
\* awaited request is answered
Fairness == WF_vars(NextChatLive)

SpecChatLive == InitChat /\ [][NextChatLive]_vars /\ Fairness

(* ---------------------- sanitize_filename on its own ------------------ *)
\* the characters the names are made of; the tab is whitespace that is not a
\* space
NameChars == {"a", "1", " ", "-", "_", "/", "\t"}

\* the name of the worked example, "Team/Chat?? 2024"
TeamChat ==
  <<"T", "e", "a", "m", "/", "C", "h", "a", "t", "?", "?", " ", "2", "0", "2", "4">>

\* the names sanitize_filename is called with
Names ==
  UNION { [1..n -> NameChars] : n \in 0..MaxName } \cup {TeamChat}

InitSanitize ==
  /\ InitRun
  /\ name_in \in Names
  /\ name_out = None

\* line 240: safe_chat_name = sanitize_filename(chat.name)
Sanitize ==
  /\ name_out = None
  /\ name_out' = Str(sanitize_filename(name_in))
  /\ UNCHANGED <<run, name_in>>

NextSanitize == Sanitize

SpecSanitize == InitSanitize /\ [][NextSanitize]_vars

TypeOK ==
  /\ pc \in {"start", "none_selected", "select", "iter", "resolve", "write",
            "completed", "crashed"}
  /\ interactive \in BOOLEAN
  /\ selected \in { Sorted(S) : S \in SUBSET Chats }
  /\ today \in Days
  /\ chatIdx \in 0..NumChats
  /\ cursor \in 0..Len(stream)
  /\ message_count = Len(messages)

(* ------------------------------ properties ---------------------------- *)
\* the first min(limit, available) items of the current chat's stream
Expected == SubSeq(stream, 1, Min(limit, Len(stream)))

\* the item of the current stream a message was built from
SourceItem(msg) == CHOOSE it \in {stream[i] : i \in 1..Len(stream)} : it.id = msg.id

\* C1: when export_chat leaves its retry loop, the accumulated messages are
\* those of an unthrottled run over the same stream with the same limit (the
\* first min(limit, available) items, same ids, same order), whatever
\* FloodWaitErrors the stream raised on the way.
C1_ThrottleInvisible ==
  pc = "write" => Ids(messages) = Ids(Expected)

\* C2: in every reachable state the number of accumulated messages is at most
\* the limit, limit 0 included, under any mix of fetches, FloodWaitErrors and
\* resolution retries.
C2_BudgetNeverExceeded ==
  /\ Len(messages) <= limit
  /\ message_count <= limit

\* C2 case: the budget is filled after the stream was throttled and restarted
\* and a sender was resolved.
C2_Witness ==
  /\ pc = "write"
  /\ limit > 0
  /\ Len(messages) = limit
  /\ restarts > 0
  /\ \E u \in Users : calls[u] > 0

\* C3: without a FloodWaitError on the stream and without failure, export_chat
\* ends with exactly min(limit, available) messages, the first items of the
\* stream in the order the iterator delivered them.
C3_ExactPrefix ==
  (pc = "write" /\ restarts = 0) =>
     /\ Len(messages) = Min(limit, Len(stream))
     /\ Ids(messages) = Ids(Expected)

\* C3 case: a stream of two messages [20, 10] cut by limit 1 to [20].
C3_Witness ==
  /\ pc = "write"
  /\ restarts = 0
  /\ floods = 0
  /\ Ids(stream) = <<20, 10>>
  /\ limit = 1
  /\ Ids(messages) = <<20>>

\* C4: the ids of the accumulated messages are pairwise distinct (the ids of
\* every modelled stream are), for every pattern of FloodWaitErrors.
C4_UniqueIds ==
  \A i, j \in 1..Len(messages) : i # j => messages[i].id # messages[j].id

\* C5: when the stream fails with a non-throttle error after k >= 1 messages
\* were accumulated, the export ends with those k messages written out as the
\* chat's document.
C5_PartialRecordWritten ==
  (pc = "crashed" /\ message_count > 0) =>
     \E d \in Days :
        /\ FileName(chatIdx, format, d) \in DOMAIN files
        /\ files[FileName(chatIdx, format, d)] = Document(chatIdx, format, messages)

\* C6: a non-throttle stream failure ends only the export of its own chat:
\* when the run has ended, export_chat has been started for every selected
\* chat, those after the failed one included.
C6_LaterChatsExported ==
  (pc \in {"crashed", "completed"} /\ selected # << >>) =>
     \A i \in 1..Len(selected) : selected[i] <= chatIdx

\* C7: over the whole run at most one client.get_entity call is
\* issued per user id; here even the calls answered with FloodWaitError are
\* left out of the count.
C7_OneCallPerRun ==
  \A u \in Users : answered[u] <= 1

\* C8: the cache entries present when one chat's export ends are
\* still present when the export of the next chat starts.
C8_CacheSharedAcrossChats ==
  [][chatIdx' # chatIdx => \A u \in DOMAIN user_cache : u \in DOMAIN user_cache']_vars

\* C9: when get_entity fails with a non-throttle error the export goes on:
\* None is cached for the id, the message in hand is appended and the
\* iterator is asked for its next item.
C9_ResolutionFailureDegrades ==
  [][(pc = "resolve" /\ calls' # calls /\ last_reply' = "error") =>
       LET item == stream[cursor]
       IN /\ pc' = "iter"
          /\ item.from_id \in DOMAIN user_cache'
          /\ user_cache'[item.from_id] = None
          /\ messages' = Append(messages, [id |-> item.id, from_user |-> None])
          /\ message_count' = message_count + 1
          /\ cursor' = cursor
          /\ stream' = stream]_vars

\* C9 case: the sender of the first message failed to resolve and the second
\* message was fetched and appended after it.
C9_Witness ==
  /\ restarts = 0
  /\ Len(messages) = 2
  /\ "from_user" \in DOMAIN messages[1]
  /\ messages[1].from_user = None
  /\ Ids(messages) = <<20, 10>>

\* C10: every accumulated message whose item has a sender carries either a
\* resolved (non-None) user info or the raw sender id.
C10_SenderIdentified ==
  \A i \in 1..Len(messages) :
     LET msg == messages[i]
         item == SourceItem(msg)
     IN item.from_id # 0 =>
          \/ "from_user" \in DOMAIN msg /\ msg.from_user # None
          \/ "from_id" \in DOMAIN msg /\ msg.from_id = item.from_id

Max(a, b) == IF a > b THEN a ELSE b

\* a step in which message_rate_limiter.wait() ran (line 204)
MessageWaitStep == pc = "iter" /\ cursor' = cursor + 1 /\ pc' # "write"

\* a step in which user_rate_limiter.wait() ran (line 165)
UserWaitStep == calls' # calls

\* C11: the instants at which two consecutive wait() calls of one RateLimiter
\* let the caller go on are at least 1/rate apart: a call proceeds at once
\* when the interval has already passed and otherwise exactly when it has, so
\* no credit is carried over from an idle period.
C11_MinimumInterval ==
  [][/\ MessageWaitStep =>
          /\ msg_last' - msg_last >= MessageInterval
          /\ msg_last' = Max(now, msg_last + MessageInterval)
     /\ UserWaitStep =>
          /\ user_last' - user_last >= UserInterval
          /\ user_last' = Max(now, user_last + UserInterval)]_vars

\* C11 case: the first message went through its gate when the run started, a
\* FloodWaitError sleep of 2 s left the gate idle for longer than its interval,
\* and the next message went through at once.
C11_Witness ==
  /\ floods = 1
  /\ restarts = 1
  /\ wait_time = 2
  /\ message_count = 2
  /\ msg_last = now
  /\ now = StartTime + 2

\* C12: a gated operation is at least 1/rate after the last gated
\* operation of the same class in the run, also when that one belonged to the
\* chat exported before.
C12_IntervalAcrossChats ==
  [][/\ (MessageWaitStep /\ gated.msg # 0) =>
          msg_last' - gated.msg >= MessageInterval
     /\ (UserWaitStep /\ gated.user # 0) =>
          user_last' - gated.user >= UserInterval]_vars

\* C13: every get_entity call of get_user_info comes after its own wait on the
\* resolution gate; when the call raises FloodWaitError(s) the caller sleeps
\* exactly s and stays in the loop with nothing cached or appended, and the
\* lookup returns only on an answer that is not a FloodWaitError.
C13_ThrottledResolveRetried ==
  [][UserWaitStep =>
       /\ user_last' = Max(now, user_last + UserInterval)
       /\ last_reply' = "flood" =>
            /\ wait_time' \in FloodSeconds
            /\ now' = user_last' + wait_time'
            /\ pc' = "resolve"
            /\ user_cache' = user_cache
            /\ messages' = messages
            /\ message_count' = message_count
       /\ last_reply' # "flood" =>
            /\ now' = user_last'
            /\ pc' = "iter"]_vars

\* C13 case: one lookup was throttled twice in a row and returned the user at
\* the third call.
C13_Witness ==
  /\ pc = "iter"
  /\ last_reply = "ok"
  /\ floods = 2
  /\ restarts = 0
  /\ \E u \in Users : calls[u] = 3 /\ completed[u] = 1

\* C14: the Markdown document written for a record has one section per
\* message of the record, in the reverse of the JSON order (oldest first): its
\* i-th section is the (n+1-i)-th message of the JSON document.
C14_NarrativeReversed ==
  (pc = "select" /\ chatIdx >= 1 /\ format = "md") =>
     LET doc == files[FileName(chatIdx, format, today)]
         structured == Document(chatIdx, "json", messages).messages
         n == Len(structured)
     IN /\ Len(doc.sections) = n
        /\ \A i \in 1..n : doc.sections[i].id = structured[n + 1 - i].id

\* C14 case: the record [20, 10] was written as sections 10, 20.
C14_Witness ==
  /\ pc = "select"
  /\ chatIdx = 1
  /\ format = "md"
  /\ Ids(messages) = <<20, 10>>
  /\ Ids(files[FileName(chatIdx, format, today)].sections) = <<10, 20>>

\* C15: when the run has exported every selected chat without failure, the
\* exports directory holds one file per exported chat: no file was replaced
\* by the export of another chat.
C15_OneFilePerChat ==
  pc = "completed" => Cardinality(DOMAIN files) = Len(selected)

\* the characters C16 allows in a file name
Allowed == Alnum \cup {" ", "-", "_"}

\* C16: a name with every character that is not allowed replaced by "_"
Replaced(name) ==
  [i \in 1..Len(name) |-> IF name[i] \in Allowed THEN name[i] ELSE "_"]

\* the result of the worked example, "Team_Chat__ 2024"
TeamChatSafe ==
  <<"T", "e", "a", "m", "_", "C", "h", "a", "t", "_", "_", " ", "2", "0", "2", "4">>

\* C16: sanitize_filename returns the name with every character other than
\* alphanumerics, space, hyphen and underscore replaced by one underscore, in
\* place, and with the leading and trailing spaces cut off; no other character
\* is left in it, and "Team/Chat?? 2024" gives "Team_Chat__ 2024".
C16_Sanitized ==
  name_out # None =>
     LET out == name_out.val
         rep == Replaced(name_in)
         n == Len(rep)
     IN /\ \A i \in 1..Len(out) : out[i] \in Allowed
        /\ \E lo \in 1..(n + 1), hi \in 0..n :
             /\ out = SubSeq(rep, lo, hi)
             /\ \A i \in 1..(lo - 1) : rep[i] = " "
             /\ \A i \in (hi + 1)..n : rep[i] = " "
        /\ out # << >> => out[1] # " " /\ out[Len(out)] # " "
        /\ name_in = TeamChat => out = TeamChatSafe

\* C16 case: the worked example was sanitized.
C16_Witness ==
  /\ name_in = TeamChat
  /\ name_out = Str(TeamChatSafe)

\* C17: in the Markdown file a message with a resolved sender shows
\* "No username" when the profile has no username, and "No name" when the
\* profile has neither a first name nor a last name.
C17_Fallbacks ==
  (pc = "select" /\ chatIdx >= 1 /\ format = "md") =>
     LET doc == files[FileName(chatIdx, format, today)]
         n == Len(messages)
     IN \A i \in 1..n :
          LET msg == messages[n + 1 - i]
              sender == doc.sections[i].sender
          IN ("from_user" \in DOMAIN msg /\ msg.from_user # None) =>
                /\ msg.from_user.username = None =>
                      sender.username = <<"No username">>
                /\ (msg.from_user.first_name = None /\ msg.from_user.last_name = None) =>
                      sender.name = <<"No name">>

\* the stream hands over an item from a sender whose id is in the cache, with
\* usernames asked for and the budget not reached
CachedSenderStep ==
  /\ pc = "iter"
  /\ cursor' = cursor + 1
  /\ include_usernames
  /\ message_count < limit
  /\ stream[cursor + 1].from_id \in DOMAIN user_cache

\* C18: once the cache of an export holds an entry for a user id, a profile
\* or None, a later message from that sender is completed from the cache: no
\* get_entity call is made for a cached id, the user limiter is not waited
\* on, the cache is left as it is and the message carries the cached value.
C18_CacheHitServedLocally ==
  [][/\ \A u \in Users : calls'[u] # calls[u] => u \notin DOMAIN user_cache
     /\ CachedSenderStep =>
          /\ pc' = "iter"
          /\ calls' = calls
          /\ user_last' = user_last
          /\ gated'.user = gated.user
          /\ user_cache' = user_cache
          /\ messages' = Append(messages,
                           [id |-> stream[cursor + 1].id,
                            from_user |-> user_cache[stream[cursor + 1].from_id]])]_vars

\* C18 case: the second message of a sender whose lookup failed was completed
\* from the cached None after one call.
C18_Witness ==
  /\ pc = "iter"
  /\ include_usernames
  /\ restarts = 0
  /\ last_reply = "item"
  /\ message_count = 2
  /\ \E u \in Users :
       /\ stream[1].from_id = u
       /\ stream[2].from_id = u
       /\ calls[u] = 1
       /\ u \in DOMAIN user_cache
       /\ user_cache[u] = None
       /\ messages[2].from_user = None

\* C19: export_chat takes at most `limit` items from one iteration of the
\* chat's message stream: no item is requested once `limit` messages have been
\* accumulated.
C19_PullsWithinBudget ==
  pc \in {"iter", "resolve", "write"} => cursor <= limit

\* the file of the chat being exported has been written and export_chat has
\* returned
Written ==
  /\ pc = "select"
  /\ chatIdx = 1
  /\ FileName(chatIdx, format, today) \in DOMAIN files

\* C20: when the remote raises FloodWaitError only finitely often, on the
\* stream and on get_entity, and the stream fails in no other way, an
\* export_chat call never ends in an exception and always gets out of its
\* retry loops and writes the chat's file, however many throttles it met.
C20_ExportTerminates ==
  /\ [](pc # "crashed")
  /\ \A k \in 0..MaxThrottle : (pc = "iter" /\ floods = k) ~> Written

\* C20 case: the file was written after as many throttles as the remote may
\* raise, on the stream and on get_entity.
C20_Witness ==
  /\ Written
  /\ floods = MaxThrottle
  /\ restarts >= 1
  /\ floods > restarts
====
